---- MODULE Spec2Model ----
(***************************************************************************)
(* Model of the contact-form relay (src/main.py): the field validators of  *)
(* ContactForm, the in-memory sliding-window rate limiter, the mailer and  *)
(* the POST /api/contact handler, with several requests in flight on one   *)
(* asyncio event loop.                                                     *)
(*                                                                         *)
(* Text is modelled as a sequence of characters, each character a          *)
(* one-character string ("e_acute" stands for an accented letter of the    *)
(* range U+00C0..U+017F).  API keys, origins and client addresses are only *)
(* ever compared whole, so they stay TLA+ strings.                         *)
(***************************************************************************)
EXTENDS Integers, Sequences, FiniteSets, TLC

\* ------------------------------------------------------------------------
\* Bounds of the model
\* ------------------------------------------------------------------------
\* Number of requests in flight at the same time (received, not yet answered).
NumReq == 2
\* The clock runs 0..MaxTime.
MaxTime == 2
\* Longest run of whitespace put around a field value handed to a validator.
MaxPad == 1

\* ------------------------------------------------------------------------
\* Configuration (src/config.py)
\* ------------------------------------------------------------------------
\* int(os.getenv("MAX_REQUESTS_PER_HOUR")): deployment-configured.
MAX_REQUESTS_PER_HOUR == 2
\* timedelta(hours=1), in clock ticks of the model (one tick = 30 minutes).
HOUR == 2

FIRST_NAME_MIN_LENGTH == 2
FIRST_NAME_MAX_LENGTH == 50
LAST_NAME_MIN_LENGTH == 2
LAST_NAME_MAX_LENGTH == 50
SUBJECT_MIN_LENGTH == 3
SUBJECT_MAX_LENGTH == 200
MESSAGE_MIN_LENGTH == 10
MESSAGE_MAX_LENGTH == 5000
ZIP_MIN_LENGTH == 2
ZIP_MAX_LENGTH == 10
\* the literals of the validators in src/main.py
STREET_MIN_LENGTH == 5
CITY_MIN_LENGTH == 2
STATE_MIN_LENGTH == 2
PHONE_BODY_MIN == 7
PHONE_BODY_MAX == 20
\* Config.PHONE_MIN_LENGTH, Config.PHONE_MAX_LENGTH: declared, read nowhere.
PHONE_MIN_LENGTH == 7
PHONE_MAX_LENGTH == 20

SPAM_KEYWORDS ==
    { <<"v", "i", "a", "g", "r", "a">>,
      <<"c", "i", "a", "l", "i", "s">>,
      <<"c", "r", "y", "p", "t", "o">>,
      <<"b", "i", "t", "c", "o", "i", "n">>,
      <<"l", "o", "t", "t", "e", "r", "y">>,
      <<"w", "i", "n", "n", "e", "r">>,
      <<"c", "a", "s", "i", "n", "o">>,
      <<"p", "i", "l", "l", "s">>,
      <<"i", "n", "v", "e", "s", "t", "m", "e", "n", "t">>,
      <<"f", "r", "e", "e", " ", "m", "o", "n", "e", "y">>,
      <<"w", "o", "r", "k", " ", "f", "r", "o", "m", " ", "h", "o", "m", "e">> }

\* ------------------------------------------------------------------------
\* Characters and the string operations the validators use
\* ------------------------------------------------------------------------
UPPER == <<"A", "B", "C", "D", "E", "F", "G", "H", "I", "J", "K", "L", "M",
           "N", "O", "P", "Q", "R", "S", "T", "U", "V", "W", "X", "Y", "Z">>
LOWER == <<"a", "b", "c", "d", "e", "f", "g", "h", "i", "j", "k", "l", "m",
           "n", "o", "p", "q", "r", "s", "t", "u", "v", "w", "x", "y", "z">>
DIGITS == {"0", "1", "2", "3", "4", "5", "6", "7", "8", "9"}
\* [a-zA-Z]
ASCII_LETTERS == {UPPER[i] : i \in 1..Len(UPPER)} \cup {LOWER[i] : i \in 1..Len(LOWER)}
\* a letter of U+00C0..U+017F
ACCENTED == {"e_acute", "n_tilde", "u_umlaut"}
\* the code points of U+00C0..U+017F that are not letters: U+00D7, U+00F7
RANGE_NON_LETTERS == {"multiplication_sign", "division_sign"}
\* a letter outside a-z, A-Z and U+00C0..U+017F
OTHER_LETTERS == {"cyrillic_a", "greek_alpha"}
\* \s, and what str.strip() removes
WHITESPACE == {" ", "\t", "\n", "\r"}

\* str.strip(): drop leading and trailing whitespace.
RECURSIVE lstrip(_)
lstrip(v) ==
    IF v # <<>> /\ Head(v) \in WHITESPACE THEN lstrip(Tail(v)) ELSE v

RECURSIVE rstrip(_)
rstrip(v) ==
    IF v # <<>> /\ v[Len(v)] \in WHITESPACE
    THEN rstrip(SubSeq(v, 1, Len(v) - 1))
    ELSE v

strip(v) == rstrip(lstrip(v))

\* str.lower() on the characters of the model.
lower_char(c) ==
    IF \E i \in 1..Len(UPPER) : UPPER[i] = c
    THEN LOWER[CHOOSE i \in 1..Len(UPPER) : UPPER[i] = c]
    ELSE c

lower(v) == [i \in 1..Len(v) |-> lower_char(v[i])]

\* keyword in v
contains(v, keyword) ==
    \E i \in 0..(Len(v) - Len(keyword)) :
        SubSeq(v, i + 1, i + Len(keyword)) = keyword

\* every character of v is in the class, and v is not empty: ^[class]+$
all_in(v, class) == v # <<>> /\ \A i \in 1..Len(v) : v[i] \in class

\* r"^[a-zA-Z\u00C0-\u017F\s\'-]+$"
NAME_CHARS ==
    ASCII_LETTERS \cup ACCENTED \cup RANGE_NON_LETTERS \cup WHITESPACE \cup {"'", "-"}
\* r"^[a-zA-Z0-9\s-]+$"
ZIP_CHARS == ASCII_LETTERS \cup DIGITS \cup WHITESPACE \cup {"-"}
\* [\d\s\-]
PHONE_CHARS == DIGITS \cup WHITESPACE \cup {"-"}

\* A validator's outcome: the value it returns, or the ValueError it raises.
Accept(v) == [ok |-> TRUE, v |-> v, msg |-> ""]
Reject(msg) == [ok |-> FALSE, v |-> <<>>, msg |-> msg]

\* ------------------------------------------------------------------------
\* ContactForm field validators (src/main.py:101-188)
\* ------------------------------------------------------------------------
\* validate_first_name with >= for > in the upper length check.
validate_first_name_max_exclusive(raw) ==
    LET v == strip(raw) IN
    IF Len(v) < FIRST_NAME_MIN_LENGTH \/ Len(v) >= FIRST_NAME_MAX_LENGTH
    THEN Reject("First name must be between 2 and 50 characters")
    ELSE IF ~all_in(v, NAME_CHARS)
    THEN Reject("Name contains invalid characters")
    ELSE Accept(v)

validate_first_name(raw) ==
    LET v == strip(raw) IN
    IF Len(v) < FIRST_NAME_MIN_LENGTH \/ Len(v) > FIRST_NAME_MAX_LENGTH
    THEN Reject("First name must be between 2 and 50 characters")
    ELSE IF ~all_in(v, NAME_CHARS)
    THEN Reject("Name contains invalid characters")
    ELSE Accept(v)

validate_last_name(raw) ==
    LET v == strip(raw) IN
    IF Len(v) < LAST_NAME_MIN_LENGTH \/ Len(v) > LAST_NAME_MAX_LENGTH
    THEN Reject("Last name must be between 2 and 50 characters")
    ELSE IF ~all_in(v, NAME_CHARS)
    THEN Reject("Name contains invalid characters")
    ELSE Accept(v)

\* re.match(r'^\+?[\d\s\-]{7,20}$', v) on the value as sent (no strip):
\* an optional '+', then 7..20 characters of the class; '$' also matches
\* just before one trailing newline.
phone_match(v) ==
    \E plus \in {0, 1} :
    \E nl \in {0, 1} :
        /\ Len(v) >= plus + nl
        /\ plus = 1 => v[1] = "+"
        /\ nl = 1 => v[Len(v)] = "\n"
        /\ LET body == SubSeq(v, plus + 1, Len(v) - nl) IN
            /\ Len(body) >= PHONE_BODY_MIN
            /\ Len(body) <= PHONE_BODY_MAX
            /\ all_in(body, PHONE_CHARS)

validate_phone(v) ==
    IF ~phone_match(v)
    THEN Reject("Invalid phone number format")
    ELSE Accept(v)

validate_street(raw) ==
    LET v == strip(raw) IN
    IF Len(v) < STREET_MIN_LENGTH
    THEN Reject("Street address is too short")
    ELSE Accept(v)

validate_city(raw) ==
    LET v == strip(raw) IN
    IF Len(v) < CITY_MIN_LENGTH
    THEN Reject("City name is too short")
    ELSE Accept(v)

validate_state(raw) ==
    LET v == strip(raw) IN
    IF Len(v) < STATE_MIN_LENGTH
    THEN Reject("Please provide a valid State/Province")
    ELSE Accept(v)

validate_zip(raw) ==
    LET v == strip(raw) IN
    IF Len(v) < ZIP_MIN_LENGTH \/ Len(v) > ZIP_MAX_LENGTH
    THEN Reject("Zip code must be between 2 and 10 characters")
    ELSE IF ~all_in(v, ZIP_CHARS)
    THEN Reject("Invalid Zip/Postal code format")
    ELSE Accept(v)

validate_subject(raw) ==
    LET v == strip(raw) IN
    IF Len(v) < SUBJECT_MIN_LENGTH \/ Len(v) > SUBJECT_MAX_LENGTH
    THEN Reject("Subject must be between 3 and 200 characters")
    ELSE Accept(v)

validate_message(raw) ==
    LET v == strip(raw) IN
    IF Len(v) < MESSAGE_MIN_LENGTH \/ Len(v) > MESSAGE_MAX_LENGTH
    THEN Reject("Message must be between 10 and 5000 characters")
    ELSE IF \E keyword \in SPAM_KEYWORDS : contains(lower(v), keyword)
    THEN Reject("Message contains spam content")
    ELSE Accept(v)

\* email: EmailStr.  The address syntax check of the field type: one "@",
\* a non-empty local part, a dotted domain of letters, digits and hyphens.
\* The value of the field is the normalised address: the local part as
\* sent, the domain in lower case.
EMAIL_LOCAL_CHARS == ASCII_LETTERS \cup DIGITS \cup {".", "_", "-", "+"}
EMAIL_DOMAIN_CHARS == ASCII_LETTERS \cup DIGITS \cup {".", "-"}

validate_email(v) ==
    LET ats == {at \in 1..Len(v) :
                    /\ v[at] = "@"
                    /\ all_in(SubSeq(v, 1, at - 1), EMAIL_LOCAL_CHARS)
                    /\ all_in(SubSeq(v, at + 1, Len(v)), EMAIL_DOMAIN_CHARS)
                    /\ v[1] # "." /\ v[at - 1] # "."
                    /\ v[at + 1] # "." /\ v[Len(v)] # "."
                    /\ \E d \in (at + 2)..(Len(v) - 1) : v[d] = "."}
    IN  IF ats # {}
        THEN LET at == CHOOSE a \in ats : TRUE
             IN  Accept(SubSeq(v, 1, at) \o lower(SubSeq(v, at + 1, Len(v))))
        ELSE Reject("value is not a valid email address")

\* ------------------------------------------------------------------------
\* ContactForm: the request body parsed into the model (src/main.py:87-188)
\* ------------------------------------------------------------------------
\* ContactFormErrors with the first_name validator not registered.
ContactFormErrorsNoFirstName(body) ==
    LET check(field, res) ==
            IF res.ok THEN {} ELSE {[field |-> field, msg |-> res.msg]}
    IN  check("last_name", validate_last_name(body.last_name))
        \cup check("email", validate_email(body.email))
        \cup check("phone", validate_phone(body.phone))
        \cup check("street", validate_street(body.street))
        \cup check("city", validate_city(body.city))
        \cup check("state", validate_state(body.state))
        \cup check("zip_code", validate_zip(body.zip_code))
        \cup check("subject", validate_subject(body.subject))
        \cup check("message", validate_message(body.message))

\* The errors the field validators raise on a body, one per failing field.
ContactFormErrors(body) ==
    LET check(field, res) ==
            IF res.ok THEN {} ELSE {[field |-> field, msg |-> res.msg]}
    IN  check("first_name", validate_first_name(body.first_name))
        \cup check("last_name", validate_last_name(body.last_name))
        \cup check("email", validate_email(body.email))
        \cup check("phone", validate_phone(body.phone))
        \cup check("street", validate_street(body.street))
        \cup check("city", validate_city(body.city))
        \cup check("state", validate_state(body.state))
        \cup check("zip_code", validate_zip(body.zip_code))
        \cup check("subject", validate_subject(body.subject))
        \cup check("message", validate_message(body.message))

\* ContactForm with every field kept as it was sent.
ContactFormRaw(body) == body

\* The model instance built from a body that raised no error: each field
\* holds what its validator returned; honeypot has no validator.
ContactForm(body) ==
    [first_name |-> validate_first_name(body.first_name).v,
     last_name  |-> validate_last_name(body.last_name).v,
     email      |-> validate_email(body.email).v,
     phone      |-> validate_phone(body.phone).v,
     street     |-> validate_street(body.street).v,
     city       |-> validate_city(body.city).v,
     state      |-> validate_state(body.state).v,
     zip_code   |-> validate_zip(body.zip_code).v,
     subject    |-> validate_subject(body.subject).v,
     message    |-> validate_message(body.message).v,
     honeypot   |-> body.honeypot]

\* ------------------------------------------------------------------------
\* Request bodies, headers and client addresses the model draws from
\* ------------------------------------------------------------------------
OkBody ==
    [first_name |-> <<" ", "A", "n", "a", " ">>,
     last_name  |-> <<"O", "'", "N", "e", "i", "l", "-", "D", "e_acute", "a", "z">>,
     email      |-> <<"A", "n", "a", "@", "S", "i", "t", "e", ".", "c", "o">>,
     phone      |-> <<"+", "1", " ", "5", "5", "5", "-", "0", "1", "0", "0">>,
     street     |-> <<"1", " ", "M", "a", "i", "n", " ", "S", "t">>,
     city       |-> <<"R", "o", "m", "e">>,
     state      |-> <<"N", "Y">>,
     zip_code   |-> <<"A", "1", "B", " ", "2", "C", "3">>,
     subject    |-> <<"H", "i", " ", "t", "h", "e", "r", "e">>,
     message    |-> <<"H", "e", "l", "l", "o", " ", "f", "r", "o", "m", " ", "A", "n", "a">>,
     honeypot   |-> <<>>]

\* honeypot of whitespace only
BlankHoneypotBody == [OkBody EXCEPT !.honeypot = <<" ", " ">>]
\* honeypot filled in by a bot
BotBody == [OkBody EXCEPT !.honeypot = <<" ", "x", " ">>]
\* a digit in the first name
BadNameBody == [OkBody EXCEPT !.first_name = <<"J", "0", "h", "n">>]
\* a bot that also sends a bad first name
BadNameBotBody == [BadNameBody EXCEPT !.honeypot = <<" ", "x", " ">>]

Bodies == {OkBody, BlankHoneypotBody, BotBody, BadNameBody, BadNameBotBody}

\* ContactForm(**body) for each body of the model, worked out once: the
\* validators' errors, and the model instance when there are none.
Parsed ==
    [body \in Bodies |->
        [errors |-> ContactFormErrors(body), form |-> ContactForm(body)]]

\* request.headers.get(...) of a header that was not sent, Header(None)
None == "<None>"
\* The client address before the handler has read it.
Unread == "<unread>"

ApiKeys == {None, "key-unknown", "key-A", "key-B"}
Origins == {None, "https://good.com", "https://GOOD.com", "https://other.com"}
ClientIps == {"10.0.0.1", "10.0.0.2"}

\* ------------------------------------------------------------------------
\* The tenant store: table "clients"
\* ------------------------------------------------------------------------
\* KamicoAdmin.encrypt_password (src/scripts/admin_tool.py:28-30)
encrypt_password(raw_password) == <<"fernet", raw_password>>

\* Config.decrypt_password: the inverse of encrypt_password.
decrypt_password(token) == token[2]

\* A row as KamicoAdmin.add_client writes it, with the id the store assigns.
client_data(id, client_name, api_key, sender_email, raw_password, recipient_email, allowed_origins) ==
    [id |-> id,
     client_name |-> client_name,
     api_key |-> api_key,
     sender_email |-> sender_email,
     sender_password |-> encrypt_password(raw_password),
     recipient_email |-> recipient_email,
     allowed_origins |-> allowed_origins,
     smtp_server |-> "smtp.gmail.com",
     smtp_port |-> 587]

clients ==
    { client_data(1, "Good Co", "key-A", "noreply@good.com", "app-pw-A",
                  "leads@good.com", {"https://good.com", "https://www.good.com"}),
      client_data(2, "Other Co", "key-B", "noreply@other.com", "app-pw-B",
                  "leads@other.com", {"https://other.com"}) }

\* No row: the value of `client` before the lookup has returned one.
NoClient == [id |-> 0]

\* Lookup without the .eq("api_key", x_api_key) filter: the first row of the
\* table, whatever key was presented.
LookupAnyTenant(x_api_key, store_fails) ==
    IF store_fails
    THEN [raised |-> TRUE, data |-> NoClient]
    ELSE [raised |-> FALSE, data |-> CHOOSE c \in clients : c.id = 1]

\* table("clients").select("*").eq("api_key", x_api_key).single().execute():
\* the one matching row; no row, several rows or a store failure raise.
Lookup(x_api_key, store_fails) ==
    LET rows == {c \in clients : c.api_key = x_api_key} IN
    IF store_fails \/ Cardinality(rows) # 1
    THEN [raised |-> TRUE, data |-> NoClient]
    ELSE [raised |-> FALSE, data |-> CHOOSE c \in rows : TRUE]

\* ------------------------------------------------------------------------
\* Responses
\* ------------------------------------------------------------------------
\* raise HTTPException(status_code=..., detail=...)
HTTPException(status_code, detail) ==
    [status |-> status_code, detail |-> detail, errors |-> {}]

\* The framework's answer to a body the ContactForm model rejects: 422 with
\* the list of field errors (no exception handler is registered for it).
RequestValidationError(errors) ==
    [status |-> 422, detail |-> "", errors |-> errors]

\* The framework's answer to an exception that escapes the handler.
UnhandledException == HTTPException(500, "Internal Server Error")

\* return {"success": True, "message": ...}  (src/main.py:351-354)
SuccessPayload ==
    [status |-> 200, detail |-> "Your message has been sent successfully!", errors |-> {}]

NoResponse == [status |-> 0, detail |-> "", errors |-> {}]

\* ------------------------------------------------------------------------
\* Rate limiter (src/main.py:67-85)
\* ------------------------------------------------------------------------
\* CleanOld keeping the entries that are exactly one hour old (>= for >).
CleanOldInclusive(timestamps, hour_ago) ==
    SelectSeq(timestamps, LAMBDA timestamp : timestamp >= hour_ago)

\* CleanOld that prunes nothing.
CleanOldKeepsAll(timestamps, hour_ago) == timestamps

\* [timestamp for timestamp in rate_limit_store[ip] if timestamp > hour_ago]
RECURSIVE CleanOld(_, _)
CleanOld(timestamps, hour_ago) ==
    IF timestamps = <<>> THEN <<>>
    ELSE IF Head(timestamps) > hour_ago
         THEN <<Head(timestamps)>> \o CleanOld(Tail(timestamps), hour_ago)
         ELSE CleanOld(Tail(timestamps), hour_ago)

\* LimitReached with > for >=.
LimitReachedOffByOne(timestamps) == Len(timestamps) > MAX_REQUESTS_PER_HOUR

\* len(rate_limit_store[ip]) >= Config.MAX_REQUESTS_PER_HOUR
LimitReached(timestamps) == Len(timestamps) >= MAX_REQUESTS_PER_HOUR

\* rate_limit_store[ip] of the defaultdict(list): a missing key reads as [].
StoreGet(store, ip) == IF ip \in DOMAIN store THEN store[ip] ELSE <<>>

\* StorePut on one list shared by all keys.
StorePutShared(store, ip, timestamps) ==
    [k \in DOMAIN store \cup {ip} |-> timestamps]

\* rate_limit_store[ip] = timestamps (creates the key)
StorePut(store, ip, timestamps) ==
    [k \in DOMAIN store \cup {ip} |-> IF k = ip THEN timestamps ELSE store[k]]

\* ------------------------------------------------------------------------
\* Mailer (src/main.py:193-280)
\* ------------------------------------------------------------------------
\* Where the body of the try block can raise.
SmtpFaults == {"none", "decrypt_password", "connect", "starttls", "login", "send_message"}

NoMail == [To |-> None]

\* The message handed to the SMTP server, with the connection it goes over.
Message(form, client) ==
    [smtp_server |-> client.smtp_server,
     smtp_port   |-> client.smtp_port,
     login       |-> <<client.sender_email, decrypt_password(client.sender_password)>>,
     Subject     |-> <<"[", client.client_name, "] New Inquiry: ", form.subject>>,
     From        |-> client.sender_email,
     To          |-> client.recipient_email,
     ReplyTo     |-> form.email,
     html_body   |-> [first_name |-> form.first_name, last_name |-> form.last_name,
                      email |-> form.email, phone |-> form.phone,
                      street |-> form.street, city |-> form.city,
                      state |-> form.state, zip_code |-> form.zip_code,
                      subject |-> form.subject, message |-> form.message]]

\* send_email without the try/except: the exception escapes.
send_email_uncaught(form_data, client, fault) ==
    IF fault = "none"
    THEN [raised |-> FALSE, ret |-> TRUE, sent |-> Message(form_data, client)]
    ELSE [raised |-> TRUE, ret |-> FALSE, sent |-> NoMail]

\* send_email whose except branch returns True as well.
send_email_returns_true(form_data, client, fault) ==
    IF fault = "none"
    THEN [raised |-> FALSE, ret |-> TRUE, sent |-> Message(form_data, client)]
    ELSE [raised |-> FALSE, ret |-> TRUE, sent |-> NoMail]

\* send_email: True when the message went out; any exception of the try
\* block is caught and turned into False.
send_email(form_data, client, fault) ==
    IF fault = "none"
    THEN [raised |-> FALSE, ret |-> TRUE, sent |-> Message(form_data, client)]
    ELSE [raised |-> FALSE, ret |-> FALSE, sent |-> NoMail]

\* ------------------------------------------------------------------------
\* State
\* ------------------------------------------------------------------------
VARIABLES
    now,               \* datetime.now(), in ticks
    rate_limit_store,  \* the defaultdict(list): ip -> admitted timestamps
    waiting,           \* number of requests received and not yet handed to a handler
    running,           \* the handlers that hold the event loop (at most one)
    pc,                \* per request: where it is
    request,           \* per request: body and headers
    local,             \* per request: the handler's locals
    response,          \* per request: the response produced
    admitted,          \* history: per ip, the timestamps recorded, until the
                       \* clock has left them an hour or more behind
    denied,            \* history: per ip, whether check_rate_limit has returned
                       \* False since it last returned True
    trace,             \* history: per request, what its stages did
    probe              \* a field value handed to a validator on its own, and
                       \* what the validator made of it

vars == <<now, rate_limit_store, waiting, running, pc, request, local, response, admitted, denied, trace, probe>>

Req == 1..NumReq

\* Pipeline with the bot trap and the rate limit ahead of the key and origin
\* checks.
PipelineHoneypotFirst ==
    <<"validate", "client_ip", "honeypot", "rate_limit", "api_key", "lookup",
      "origin", "send_email", "log", "return">>

\* Pipeline with the rate limit ahead of the bot trap.
PipelineRateLimitBeforeHoneypot ==
    <<"validate", "api_key", "lookup", "origin", "client_ip", "rate_limit",
      "honeypot", "send_email", "log", "return">>

\* Pipeline with the email_logs insert ahead of the mailer.
PipelineLogBeforeSend ==
    <<"validate", "api_key", "lookup", "origin", "client_ip", "honeypot",
      "rate_limit", "log", "send_email", "return">>

\* The order of the stages of POST /api/contact: the framework builds the
\* ContactForm from the body before it calls the handler (the `form:
\* ContactForm` parameter, src/main.py:290), then the handler body runs top
\* to bottom (src/main.py:296-354).
Pipeline ==
    <<"validate", "api_key", "lookup", "origin", "client_ip", "honeypot",
      "rate_limit", "send_email", "log", "return">>

After(stage) ==
    Pipeline[(CHOOSE i \in 1..Len(Pipeline) : Pipeline[i] = stage) + 1]

\* AwaitPoints of a check_rate_limit that awaits between its check and its
\* append.
AwaitPointsInLimiter == {"idle", "rate_limit_record"}

\* Where a handler does not hold the event loop.  contact_form is an
\* `async def` with no await in it and check_rate_limit is a plain function:
\* a handler waits to be called, and once called it runs to its end before
\* any other handler runs.
AwaitPoints == {"idle"}

\* Handler r may take its next step: it holds the event loop, or it waits at
\* an await point and the loop is free.
Scheduled(r) == r \in running \/ (pc[r] \in AwaitPoints /\ running = {})

NewLocal == [form |-> [honeypot |-> <<>>], client |-> NoClient, now |-> 0]
NewTrace(store) ==
    [stages      |-> <<>>,       \* the stages run so far, in the order they ran
     store0      |-> store,      \* rate_limit_store when the handler was called
     store_error |-> FALSE,      \* the tenant store failed during the lookup
     rl          |-> "none",     \* what check_rate_limit returned
     prior       |-> <<>>,       \* admitted[ip] when check_rate_limit was entered
     seen        |-> <<>>,       \* rate_limit_store[ip] as check_rate_limit found it
     refusals    |-> FALSE,      \* denied[ip] when check_rate_limit returned True
     send_calls  |-> 0,          \* calls of send_email
     fault       |-> "none",     \* what went wrong inside send_email
     mail        |-> NoMail,     \* the message that went out
     log         |-> "none",     \* the email_logs insert: none, inserted, raised
     log_record  |-> [client_id |-> 0]]

\* A free slot.
NoRequest == [body |-> OkBody, x_api_key |-> None, origin |-> None, client_ip |-> Unread]
NoLocal == NewLocal
NoTrace == NewTrace(<<>>)

\* No field value is under test.
NoProbe == [field |-> "none", raw |-> <<>>, out |-> Reject("")]

\* The service after start-up: nothing received, rate_limit_store empty.
ServiceInit ==
    /\ now = 0
    /\ rate_limit_store = [k \in {} |-> <<>>]
    /\ waiting = 0
    /\ running = {}
    /\ pc = [r \in Req |-> "idle"]
    /\ request = [r \in Req |-> NoRequest]
    /\ local = [r \in Req |-> NoLocal]
    /\ response = [r \in Req |-> NoResponse]
    /\ admitted = [k \in ClientIps |-> <<>>]
    /\ denied = [k \in ClientIps |-> FALSE]
    /\ trace = [r \in Req |-> NoTrace]

Init == ServiceInit /\ probe = NoProbe

\* The history of request r with one more stage run.
Ran(r, stage) == [trace[r] EXCEPT !.stages = Append(@, stage)]

Goto(r, stage) ==
    /\ pc' = [pc EXCEPT ![r] = stage]
    /\ running' = IF stage \in AwaitPoints THEN running \ {r} ELSE running \cup {r}
    /\ UNCHANGED response

\* The handler ends: an HTTPException raised, or the return value.
Finish(r, resp) ==
    /\ pc' = [pc EXCEPT ![r] = "done"]
    /\ running' = running \cup {r}
    /\ response' = [response EXCEPT ![r] = resp]

\* ------------------------------------------------------------------------
\* Actions
\* ------------------------------------------------------------------------
\* A request arrives and waits for the event loop.
Receive ==
    /\ waiting + Cardinality({r \in Req : pc[r] # "idle"}) < NumReq
    /\ waiting' = waiting + 1
    /\ UNCHANGED <<now, rate_limit_store, running, pc, request, local, response, admitted, denied, trace, probe>>

\* The framework calls the endpoint (handler r, the lowest one free) with a
\* waiting request: its body and headers.  The client address is whatever
\* the handler finds when it looks it up.
Call(r) ==
    /\ waiting > 0
    /\ pc[r] = "idle"
    /\ \A q \in 1..(r - 1) : pc[q] # "idle"
    /\ Scheduled(r)
    /\ waiting' = waiting - 1
    /\ \E body \in Bodies, x_api_key \in ApiKeys, origin \in Origins :
        request' = [request EXCEPT ![r] =
                        [body |-> body, x_api_key |-> x_api_key,
                         origin |-> origin, client_ip |-> Unread]]
    /\ local' = [local EXCEPT ![r] = NewLocal]
    /\ trace' = [trace EXCEPT ![r] = NewTrace(rate_limit_store)]
    /\ Goto(r, Pipeline[1])
    /\ UNCHANGED <<now, rate_limit_store, admitted, denied, probe>>

\* form: ContactForm -- the body is validated into the model; a rejected body
\* is answered by the framework and the handler body never runs.
ValidateBody(r) ==
    /\ pc[r] = "validate"
    /\ Scheduled(r)
    /\ LET parsed == Parsed[request[r].body] IN
        IF parsed.errors # {}
        THEN /\ Finish(r, RequestValidationError(parsed.errors))
             /\ UNCHANGED local
        ELSE /\ local' = [local EXCEPT ![r].form = parsed.form]
             /\ Goto(r, After("validate"))
    /\ trace' = [trace EXCEPT ![r] = Ran(r, "validate")]
    /\ UNCHANGED <<now, waiting, rate_limit_store, request, admitted, denied, probe>>

\* 1. API Key Check: if not x_api_key
ApiKeyCheck(r) ==
    /\ pc[r] = "api_key"
    /\ Scheduled(r)
    /\ IF request[r].x_api_key \in {None, ""}
       THEN Finish(r, HTTPException(401, "X-API-Key header required"))
       ELSE Goto(r, After("api_key"))
    /\ trace' = [trace EXCEPT ![r] = Ran(r, "api_key")]
    /\ UNCHANGED <<now, waiting, rate_limit_store, request, local, admitted, denied, probe>>

\* OnLookupError without the try/except: the exception escapes the handler.
OnLookupErrorUncaught == UnhandledException

\* except Exception: raise HTTPException(status_code=401, detail="Invalid API Key")
OnLookupError == HTTPException(401, "Invalid API Key")

\* 2. Supabase Lookup: any exception of the query is answered 401.
SupabaseLookup(r) ==
    /\ pc[r] = "lookup"
    /\ Scheduled(r)
    /\ \E store_fails \in BOOLEAN :
        LET res == Lookup(request[r].x_api_key, store_fails) IN
        /\ trace' = [trace EXCEPT ![r] = [Ran(r, "lookup") EXCEPT !.store_error = store_fails]]
        /\ IF res.raised
           THEN /\ Finish(r, OnLookupError)
                /\ UNCHANGED local
           ELSE /\ local' = [local EXCEPT ![r].client = res.data]
                /\ Goto(r, After("lookup"))
    /\ UNCHANGED <<now, waiting, rate_limit_store, request, admitted, denied, probe>>

\* if not origin
OriginMissing(origin) == origin \in {None, ""}

\* OriginAllowed against one allow-list for all tenants.
OriginAllowedAnyTenant(origin, client) ==
    \E c \in clients : origin \in c.allowed_origins

\* if origin not in client['allowed_origins']
OriginAllowed(origin, client) == origin \in client.allowed_origins

\* 3. Domain Validation: origin = request.headers.get("origin"), then the
\* two checks.
DomainValidation(r) ==
    /\ pc[r] = "origin"
    /\ Scheduled(r)
    /\ LET origin == request[r].origin IN
        IF OriginMissing(origin)
        THEN Finish(r, HTTPException(403, "Direct API access not allowed"))
        ELSE IF ~OriginAllowed(origin, local[r].client)
        THEN Finish(r, HTTPException(403, "This domain is not authorized to use this API Key"))
        ELSE Goto(r, After("origin"))
    /\ trace' = [trace EXCEPT ![r] = Ran(r, "origin")]
    /\ UNCHANGED <<now, waiting, rate_limit_store, request, local, admitted, denied, probe>>

\* Get client IP: request.headers.get("x-forwarded-for", request.client.host)
GetClientIp(r) ==
    /\ pc[r] = "client_ip"
    /\ Scheduled(r)
    /\ \E client_ip \in ClientIps :
        request' = [request EXCEPT ![r].client_ip = client_ip]
    /\ Goto(r, After("client_ip"))
    /\ trace' = [trace EXCEPT ![r] = Ran(r, "client_ip")]
    /\ UNCHANGED <<now, waiting, rate_limit_store, local, admitted, denied, probe>>

\* HoneypotFilled without the strip().
HoneypotFilledNoStrip(honeypot) == honeypot # <<>>

\* if form.honeypot and form.honeypot.strip()
HoneypotFilled(honeypot) == honeypot # <<>> /\ strip(honeypot) # <<>>

\* SECURITY: Check honeypot (bot trap)
CheckHoneypot(r) ==
    /\ pc[r] = "honeypot"
    /\ Scheduled(r)
    /\ IF HoneypotFilled(local[r].form.honeypot)
       THEN Finish(r, HTTPException(400, "Invalid submission"))
       ELSE Goto(r, After("honeypot"))
    /\ trace' = [trace EXCEPT ![r] = Ran(r, "honeypot")]
    /\ UNCHANGED <<now, waiting, rate_limit_store, request, local, admitted, denied, probe>>

\* check_rate_limit, "Clean old entries": now is read, the key's list is
\* replaced by its entries newer than an hour.
CleanOldEntries(r) ==
    /\ pc[r] = "rate_limit"
    /\ Scheduled(r)
    /\ LET ip == request[r].client_ip IN
        /\ local' = [local EXCEPT ![r].now = now]
        /\ rate_limit_store' =
             StorePut(rate_limit_store, ip, CleanOld(StoreGet(rate_limit_store, ip), now - HOUR))
        /\ trace' = [trace EXCEPT ![r] = [Ran(r, "rate_limit") EXCEPT
                                             !.prior = admitted[ip],
                                             !.seen = StoreGet(rate_limit_store, ip)]]
    /\ Goto(r, "rate_limit_check")
    /\ UNCHANGED <<now, waiting, request, admitted, denied, probe>>

\* check_rate_limit, "Check limit": return False, answered 429.
CheckLimit(r) ==
    /\ pc[r] = "rate_limit_check"
    /\ Scheduled(r)
    /\ IF LimitReached(StoreGet(rate_limit_store, request[r].client_ip))
       THEN /\ Finish(r, HTTPException(429, "Too many requests. Please try again later."))
            /\ trace' = [trace EXCEPT ![r].rl = "False"]
            /\ denied' = [denied EXCEPT ![request[r].client_ip] = TRUE]
       ELSE /\ Goto(r, "rate_limit_record")
            /\ UNCHANGED <<trace, denied>>
    /\ UNCHANGED <<now, waiting, rate_limit_store, request, local, admitted, probe>>

\* check_rate_limit: rate_limit_store[ip].append(now); return True
RecordRequest(r) ==
    /\ pc[r] = "rate_limit_record"
    /\ Scheduled(r)
    /\ LET ip == request[r].client_ip IN
        /\ rate_limit_store' =
             StorePut(rate_limit_store, ip, Append(StoreGet(rate_limit_store, ip), local[r].now))
        /\ admitted' = [admitted EXCEPT ![ip] = Append(@, local[r].now)]
        /\ denied' = [denied EXCEPT ![ip] = FALSE]
        /\ trace' = [trace EXCEPT ![r].rl = "True", ![r].refusals = denied[ip]]
    /\ Goto(r, After("rate_limit"))
    /\ UNCHANGED <<now, waiting, request, local, probe>>

\* SendEmail that gives the rate-limit slot back when the delivery fails.
SendEmailRollback(r) ==
    /\ pc[r] = "send_email"
    /\ Scheduled(r)
    /\ \E fault \in SmtpFaults :
        LET res == send_email(local[r].form, local[r].client, fault)
            ip == request[r].client_ip
            window == StoreGet(rate_limit_store, ip)
        IN
        /\ trace' = [trace EXCEPT ![r] = [Ran(r, "send_email") EXCEPT
                                             !.send_calls = @ + 1,
                                             !.fault = fault,
                                             !.mail = res.sent]]
        /\ IF ~res.ret
           THEN /\ Finish(r, HTTPException(500, "Failed to send message. Please try again."))
                /\ rate_limit_store' =
                     StorePut(rate_limit_store, ip, SubSeq(window, 1, Len(window) - 1))
           ELSE /\ Goto(r, After("send_email"))
                /\ UNCHANGED rate_limit_store
    /\ UNCHANGED <<now, waiting, request, local, admitted, denied, probe>>

\* success = send_email(form, client); if not success: raise 500
SendEmail(r) ==
    /\ pc[r] = "send_email"
    /\ Scheduled(r)
    /\ \E fault \in SmtpFaults :
        LET res == send_email(local[r].form, local[r].client, fault) IN
        /\ trace' = [trace EXCEPT ![r] = [Ran(r, "send_email") EXCEPT
                                             !.send_calls = @ + 1,
                                             !.fault = fault,
                                             !.mail = res.sent]]
        /\ IF res.raised
           THEN Finish(r, UnhandledException)
           ELSE IF ~res.ret
           THEN Finish(r, HTTPException(500, "Failed to send message. Please try again."))
           ELSE Goto(r, After("send_email"))
    /\ UNCHANGED <<now, waiting, rate_limit_store, request, local, admitted, denied, probe>>

\* The row inserted into table "email_logs".
LogRecord(form, client) ==
    [client_id |-> client.id, subject |-> form.subject, sender_email |-> form.email]

\* log_insert without the try/except: the exception of the insert escapes.
log_insert_uncaught(form, client, insert_fails) ==
    [raised |-> insert_fails,
     log    |-> IF insert_fails THEN "raised" ELSE "inserted",
     record |-> IF insert_fails THEN [client_id |-> 0] ELSE LogRecord(form, client)]

\* try: Config.supabase.table("email_logs").insert({...}).execute()
\* except Exception as e: print(...)  -- nothing is raised to the handler.
log_insert(form, client, insert_fails) ==
    [raised |-> FALSE,
     log    |-> IF insert_fails THEN "raised" ELSE "inserted",
     record |-> IF insert_fails THEN [client_id |-> 0] ELSE LogRecord(form, client)]

\* logging: the insert, its exception printed and dropped
LogDelivery(r) ==
    /\ pc[r] = "log"
    /\ Scheduled(r)
    /\ \E insert_fails \in BOOLEAN :
        LET res == log_insert(local[r].form, local[r].client, insert_fails) IN
        /\ trace' = [trace EXCEPT ![r] = [Ran(r, "log") EXCEPT
                                             !.log = res.log,
                                             !.log_record = res.record]]
        /\ IF res.raised
           THEN Finish(r, UnhandledException)
           ELSE Goto(r, After("log"))
    /\ UNCHANGED <<now, waiting, rate_limit_store, request, local, admitted, denied, probe>>

\* return {"success": True, "message": "Your message has been sent successfully!"}
Return(r) ==
    /\ pc[r] = "return"
    /\ Scheduled(r)
    /\ Finish(r, SuccessPayload)
    /\ trace' = [trace EXCEPT ![r] = Ran(r, "return")]
    /\ UNCHANGED <<now, waiting, rate_limit_store, request, local, admitted, denied, probe>>

\* The response is sent; the request is over and its slot is free again.
Respond(r) ==
    /\ pc[r] = "done"
    /\ pc' = [pc EXCEPT ![r] = "idle"]
    /\ running' = running \ {r}
    /\ request' = [request EXCEPT ![r] = NoRequest]
    /\ local' = [local EXCEPT ![r] = NoLocal]
    /\ response' = [response EXCEPT ![r] = NoResponse]
    /\ trace' = [trace EXCEPT ![r] = NoTrace]
    /\ UNCHANGED <<now, waiting, rate_limit_store, admitted, denied, probe>>

\* Time passes.  The history forgets what no trailing hour can contain again.
Tick ==
    /\ now < MaxTime
    /\ now' = now + 1
    /\ admitted' = [k \in ClientIps |-> SelectSeq(admitted[k], LAMBDA t : t > now' - HOUR)]
    /\ UNCHANGED <<waiting, rate_limit_store, running, pc, request, local, response, denied, trace, probe>>

Next ==
    \/ Receive
    \/ \E r \in Req : Call(r)
    \/ \E r \in Req : ValidateBody(r)
    \/ \E r \in Req : ApiKeyCheck(r)
    \/ \E r \in Req : SupabaseLookup(r)
    \/ \E r \in Req : DomainValidation(r)
    \/ \E r \in Req : GetClientIp(r)
    \/ \E r \in Req : CheckHoneypot(r)
    \/ \E r \in Req : CleanOldEntries(r)
    \/ \E r \in Req : CheckLimit(r)
    \/ \E r \in Req : RecordRequest(r)
    \/ \E r \in Req : SendEmail(r)
    \/ \E r \in Req : LogDelivery(r)
    \/ \E r \in Req : Return(r)
    \/ \E r \in Req : Respond(r)
    \/ Tick

Spec == Init /\ [][Next]_vars

\* ------------------------------------------------------------------------
\* The field validators on their own: a value is drawn, then one validator
\* is applied to it, as ContactForm(**body) applies it to the field.
\* ------------------------------------------------------------------------
Fill(c, n) == [i \in 1..n |-> c]

\* n characters: the filler, with c as the second one.
Core(filler, c, n) ==
    IF n = 0 THEN <<>>
    ELSE IF n = 1 THEN <<c>>
    ELSE <<filler, c>> \o Fill(filler, n - 2)

\* Runs of whitespace of up to MaxPad characters.
Pads == {Fill(w, k) : w \in {" ", "\n"}, k \in 0..MaxPad}

NameProbeChars ==
    {"a", "Z", "e_acute", "'", "-", " ", "\t", "\n", "0", "!",
     "multiplication_sign", "cyrillic_a"}

\* Lengths around the limits of the name fields.
NameProbeLengths ==
    {0, 1, FIRST_NAME_MIN_LENGTH, FIRST_NAME_MIN_LENGTH + 1,
     FIRST_NAME_MAX_LENGTH - 1, FIRST_NAME_MAX_LENGTH, FIRST_NAME_MAX_LENGTH + 1}

NameInputs ==
    {lp \o Core("b", c, n) \o rp :
        lp \in Pads, rp \in Pads, c \in NameProbeChars, n \in NameProbeLengths}

PhoneProbeChars == {"5", "-", " ", "\t", "a", "+"}

\* Lengths around the limits of the phone pattern.
PhoneProbeLengths ==
    {PHONE_BODY_MIN - 1, PHONE_BODY_MIN, PHONE_BODY_MAX - 1, PHONE_BODY_MAX,
     PHONE_BODY_MAX + 1}

PhoneInputs ==
    {lp \o plus \o Core("5", c, n) \o rp :
        lp \in Pads, rp \in Pads, plus \in {<<>>, <<"+">>},
        c \in PhoneProbeChars, n \in PhoneProbeLengths}

ValidatorsInit ==
    /\ ServiceInit
    /\ \E raw \in NameInputs \cup PhoneInputs :
        probe = [field |-> "none", raw |-> raw, out |-> Reject("")]

\* @field_validator('first_name')
ProbeFirstName ==
    /\ probe.field = "none"
    /\ probe.raw \in NameInputs
    /\ probe' = [probe EXCEPT !.field = "first_name",
                              !.out = validate_first_name(probe.raw)]
    /\ UNCHANGED <<now, rate_limit_store, waiting, running, pc, request, local, response, admitted, denied, trace>>

\* @field_validator('last_name')
ProbeLastName ==
    /\ probe.field = "none"
    /\ probe.raw \in NameInputs
    /\ probe' = [probe EXCEPT !.field = "last_name",
                              !.out = validate_last_name(probe.raw)]
    /\ UNCHANGED <<now, rate_limit_store, waiting, running, pc, request, local, response, admitted, denied, trace>>

\* @field_validator('phone')
ProbePhone ==
    /\ probe.field = "none"
    /\ probe.raw \in PhoneInputs
    /\ probe' = [probe EXCEPT !.field = "phone",
                              !.out = validate_phone(probe.raw)]
    /\ UNCHANGED <<now, rate_limit_store, waiting, running, pc, request, local, response, admitted, denied, trace>>

ValidatorsNext == ProbeFirstName \/ ProbeLastName \/ ProbePhone

SpecValidators == ValidatorsInit /\ [][ValidatorsNext]_vars

\* ------------------------------------------------------------------------
\* Vocabulary of the properties
\* ------------------------------------------------------------------------
\* The handler of request r has ended and its response is not sent yet.
Done(r) == pc[r] = "done"

\* The stage at which request r ended.
EndedAt(r) == trace[r].stages[Len(trace[r].stages)]

\* A body that violates at least one ContactForm validator.
Rejected ==
    {body \in Bodies :
        \/ ~validate_first_name(body.first_name).ok
        \/ ~validate_last_name(body.last_name).ok
        \/ ~validate_email(body.email).ok
        \/ ~validate_phone(body.phone).ok
        \/ ~validate_street(body.street).ok
        \/ ~validate_city(body.city).ok
        \/ ~validate_state(body.state).ok
        \/ ~validate_zip(body.zip_code).ok
        \/ ~validate_subject(body.subject).ok
        \/ ~validate_message(body.message).ok}

\* The X-API-Key header is absent.
KeyMissing(r) == request[r].x_api_key = None

\* The tenants whose api_key is the one request r presents.
TenantsOf(r) == {c \in clients : c.api_key = request[r].x_api_key}

\* The lookup of r's key finds no tenant: the key is unknown, or the store failed.
Unresolved(r) == TenantsOf(r) = {} \/ trace[r].store_error

\* The Origin header is absent, or is not one of the tenant's allowed origins.
OriginRefused(r) ==
    \/ request[r].origin = None
    \/ \A c \in TenantsOf(r) : \A o \in c.allowed_origins : o # request[r].origin

\* The honeypot holds a character that is not whitespace.
NonBlankHoneypot(r) ==
    \E i \in 1..Len(request[r].body.honeypot) :
        request[r].body.honeypot[i] \notin WHITESPACE

IsPrefix(s, t) == Len(s) <= Len(t) /\ SubSeq(t, 1, Len(s)) = s

\* The stage a request ends at and the status it is answered with, when the
\* stages are taken in the given order and the first failing one answers.
RECURSIVE FirstFailure(_, _, _)
FirstFailure(r, order, i) ==
    IF i > Len(order) THEN [stage |-> "return", status |-> 200]
    ELSE LET stage == order[i]
             fails ==
                CASE stage = "validate"   -> request[r].body \in Rejected
                  [] stage = "api_key"    -> KeyMissing(r)
                  [] stage = "lookup"     -> Unresolved(r)
                  [] stage = "origin"     -> OriginRefused(r)
                  [] stage = "honeypot"   -> NonBlankHoneypot(r)
                  [] stage = "rate_limit" -> trace[r].rl = "False"
                  [] stage = "send_email" -> trace[r].fault # "none"
                  [] OTHER -> FALSE
             status ==
                CASE stage = "validate"   -> 422
                  [] stage = "api_key"    -> 401
                  [] stage = "lookup"     -> 401
                  [] stage = "origin"     -> 403
                  [] stage = "honeypot"   -> 400
                  [] stage = "rate_limit" -> 429
                  [] stage = "send_email" -> 500
                  [] OTHER -> 0
         IN IF fails THEN [stage |-> stage, status |-> status]
            ELSE FirstFailure(r, order, i + 1)

\* ------------------------------------------------------------------------
\* C1
\* ------------------------------------------------------------------------
\* The order the claim states: authentication, tenant, origin, honeypot,
\* rate limit, validation, delivery, log.
ClaimedOrder ==
    <<"api_key", "lookup", "origin", "client_ip", "honeypot", "rate_limit",
      "validate", "send_email", "log", "return">>

\* The order found in the code: validation comes first.
CodeOrder ==
    <<"validate", "api_key", "lookup", "origin", "client_ip", "honeypot",
      "rate_limit", "send_email", "log", "return">>

WindowCount(ip, t) ==
    Cardinality({i \in 1..Len(admitted[ip]) :
                    admitted[ip][i] > t - HOUR /\ admitted[ip][i] <= t})

\* C2: however the requests in flight interleave, no key has more than
\* MAX_REQUESTS_PER_HOUR admitted calls within any trailing hour, and no two
\* requests are between the check and the append of check_rate_limit at once.
C2_AtMostMaxAdmitted ==
    /\ \A ip \in ClientIps : \A t \in 0..MaxTime :
            WindowCount(ip, t) <= MAX_REQUESTS_PER_HOUR
    /\ Cardinality({r \in Req : pc[r] \in {"rate_limit_check", "rate_limit_record"}}) <= 1

\* A request took the last slot of its key while another request was in flight.
C2_Witness ==
    \E r \in Req :
        /\ waiting > 0
        /\ Done(r)
        /\ trace[r].rl = "True"
        /\ WindowCount(request[r].client_ip, now) = MAX_REQUESTS_PER_HOUR

\* ------------------------------------------------------------------------
\* C3
\* ------------------------------------------------------------------------
\* The timestamps of a sequence that lie within the hour before t.
InWindow(timestamps, t) == SelectSeq(timestamps, LAMBDA ts : ts > t - HOUR)

\* C3: check_rate_limit(key) returns True iff fewer than
\* MAX_REQUESTS_PER_HOUR of the calls admitted before for that key lie within
\* the trailing hour; on True the key's window is those timestamps followed
\* by the current one, on False it is those timestamps and nothing more.
C3_AdmittedIffBelowMax ==
    \A r \in Req :
        trace[r].rl # "none" =>
            LET ip == request[r].client_ip
                before == InWindow(trace[r].prior, local[r].now)
            IN  /\ trace[r].rl = "True" <=> Len(before) < MAX_REQUESTS_PER_HOUR
                /\ trace[r].rl = "True" =>
                        rate_limit_store[ip] = Append(before, local[r].now)
                /\ trace[r].rl = "False" => rate_limit_store[ip] = before

\* A call was denied at a full window, some time after the start.
C3_Witness ==
    \E r \in Req :
        /\ trace[r].rl = "False"
        /\ Len(trace[r].prior) = MAX_REQUESTS_PER_HOUR
        /\ local[r].now > 0

\* ------------------------------------------------------------------------
\* C4
\* ------------------------------------------------------------------------
\* C4: send_email is never called for a request whose body violates a
\* ContactForm validator.
C4_RejectedNeverMailed ==
    \A r \in Req :
        request[r].body \in Rejected =>
            /\ trace[r].send_calls = 0
            /\ trace[r].mail = NoMail

\* A request with a rejected body has run to its end.
C4_Witness ==
    \E r \in Req : Done(r) /\ request[r].body \in Rejected /\ response[r].status = 422

\* ------------------------------------------------------------------------
\* C5
\* ------------------------------------------------------------------------
RanStage(r, stage) == \E i \in 1..Len(trace[r].stages) : trace[r].stages[i] = stage

C6_OriginExactMatch ==
    \A r \in Req :
        RanStage(r, "origin") =>
            LET refused == Done(r) /\ EndedAt(r) = "origin" IN
            /\ refused <=> OriginRefused(r)
            /\ refused => response[r].status = 403
            /\ (~refused /\ EndedAt(r) = "origin") => pc[r] = "client_ip"

\* An origin that differs from an allowed one in case only has been refused.
C6_Witness ==
    \E r \in Req :
        /\ Done(r)
        /\ request[r].x_api_key = "key-A"
        /\ request[r].origin = "https://GOOD.com"
        /\ response[r].status = 403

\* ------------------------------------------------------------------------
\* C7
\* ------------------------------------------------------------------------
Authorized(r) == ~KeyMissing(r) /\ ~Unresolved(r) /\ ~OriginRefused(r)

InvalidSubmission == [status |-> 400, detail |-> "Invalid submission", errors |-> {}]

C8_NoBudgetBeforeAuth ==
    \A r \in Req :
        /\ (Done(r) /\ EndedAt(r) \in {"api_key", "lookup", "origin", "honeypot"}) =>
                /\ rate_limit_store = trace[r].store0
                /\ trace[r].rl = "none"
        /\ RanStage(r, "rate_limit") => (Authorized(r) /\ ~NonBlankHoneypot(r))

\* A bot was turned away while the store held a window, which it left alone.
C8_Witness ==
    \E r \in Req :
        /\ Done(r)
        /\ EndedAt(r) = "honeypot"
        /\ request[r].client_ip \in DOMAIN rate_limit_store
        /\ rate_limit_store[request[r].client_ip] # <<>>

\* ------------------------------------------------------------------------
\* C9
\* ------------------------------------------------------------------------
\* What the validator of a field says of a body.
FieldResult(body, field) ==
    CASE field = "first_name" -> validate_first_name(body.first_name)
      [] field = "last_name"  -> validate_last_name(body.last_name)
      [] field = "email"      -> validate_email(body.email)
      [] field = "phone"      -> validate_phone(body.phone)
      [] field = "street"     -> validate_street(body.street)
      [] field = "city"       -> validate_city(body.city)
      [] field = "state"      -> validate_state(body.state)
      [] field = "zip_code"   -> validate_zip(body.zip_code)
      [] field = "subject"    -> validate_subject(body.subject)
      [] field = "message"    -> validate_message(body.message)

\* The response names a field error, and each error it names is what the
\* field's validator raised.
CarriesFieldErrors(r) ==
    /\ response[r].errors # {}
    /\ \A e \in response[r].errors :
        LET res == FieldResult(request[r].body, e.field) IN ~res.ok /\ res.msg = e.msg

\* Every stage through the delivery has passed.
Delivered(r) ==
    /\ request[r].body \notin Rejected
    /\ Authorized(r)
    /\ ~NonBlankHoneypot(r)
    /\ trace[r].rl = "True"
    /\ trace[r].send_calls = 1
    /\ trace[r].fault = "none"

\* A request has a response exactly when its handler has ended.
OneResponse(r) == response[r] # NoResponse <=> Done(r)

SendFailed == HTTPException(500, "Failed to send message. Please try again.")

\* C10: whatever goes wrong inside send_email (decryption, connection,
\* STARTTLS, login, transmission), the request is answered 500 with the fixed
\* message, no message has gone out and no log record is written.
C10_MailerFailureIs500 ==
    \A r \in Req :
        (trace[r].send_calls > 0 /\ trace[r].fault # "none") =>
            /\ Done(r)
            /\ response[r] = SendFailed
            /\ trace[r].mail = NoMail
            /\ trace[r].log = "none"

\* The decryption of the stored password failed inside send_email.
C10_Witness ==
    \E r \in Req :
        /\ Done(r)
        /\ trace[r].fault = "decrypt_password"
        /\ response[r].status = 500

\* ------------------------------------------------------------------------
\* C11: a failure of the delivery-log write never changes the response.
\* Whenever send_email has returned True, the handler ends with the 200
\* success payload, whether the email_logs insert succeeded or raised; and
\* after the insert (either way) the handler is at its return statement.
\* ------------------------------------------------------------------------
C11_LogFailureSwallowed ==
    \A r \in Req :
        /\ (Done(r) /\ RanStage(r, "send_email") /\ trace[r].mail # NoMail)
              => /\ response[r] = SuccessPayload
                 /\ trace[r].log \in {"inserted", "raised"}
        /\ (trace[r].log \in {"inserted", "raised"} /\ ~Done(r))
              => pc[r] = "return"

\* A request whose mail went out and whose log insert raised has been
\* answered 200.
C11_Witness ==
    \E r \in Req :
        /\ Done(r)
        /\ trace[r].mail # NoMail
        /\ trace[r].log = "raised"
        /\ response[r] = SuccessPayload

\* ------------------------------------------------------------------------
\* C12
\* ------------------------------------------------------------------------
\* Every gate before the mailer lets request r through.
AllGatesPass(r) ==
    /\ request[r].body \notin Rejected
    /\ Authorized(r)
    /\ ~NonBlankHoneypot(r)
    /\ trace[r].rl = "True"

\* The fields of the submission that send_email renders into the message.
RenderedFields ==
    {"first_name", "last_name", "email", "phone", "street", "city", "state",
     "zip_code", "subject", "message"}

\* The fields whose validator returns the stripped value.
StrippedFields ==
    {"first_name", "last_name", "street", "city", "state", "zip_code",
     "subject", "message"}

\* The address with its domain in lower case and its local part untouched.
NormalisedEmail(sent, rendered) ==
    /\ Len(rendered) = Len(sent)
    /\ \E at \in 1..Len(sent) :
        /\ sent[at] = "@"
        /\ \A i \in 1..at : rendered[i] = sent[i]
        /\ \A i \in (at + 1)..Len(sent) : rendered[i] = lower_char(sent[i])

\* C12 as claimed: a valid submission with a known key, an allow-listed
\* origin, a blank honeypot and a client within its limit reaches the mailer,
\* which renders every field exactly as the body sent it, and with the
\* mailer succeeding the answer is the 200 success payload.
C12_Claimed ==
    \A r \in Req :
        (Done(r) /\ AllGatesPass(r)) =>
            /\ trace[r].send_calls = 1
            /\ trace[r].fault = "none" =>
                /\ response[r] = SuccessPayload
                /\ \A f \in RenderedFields :
                       trace[r].mail.html_body[f] = request[r].body[f]

\* C12: such a submission reaches the mailer exactly once; with the mailer
\* succeeding the answer is the 200 success payload and the message renders
\* the validated fields: first_name, last_name, street, city, state,
\* zip_code, subject and message without their surrounding whitespace, the
\* phone as sent, the email with its domain in lower case; the Reply-To is
\* that email and the subject line carries the stripped subject.
C12_EndToEnd ==
    \A r \in Req :
        (Done(r) /\ AllGatesPass(r)) =>
            /\ trace[r].send_calls = 1
            /\ trace[r].fault = "none" =>
                LET body == request[r].body
                    mail == trace[r].mail
                IN  /\ response[r] = SuccessPayload
                    /\ \A f \in StrippedFields : mail.html_body[f] = strip(body[f])
                    /\ mail.html_body.phone = body.phone
                    /\ NormalisedEmail(body.email, mail.html_body.email)
                    /\ mail.ReplyTo = mail.html_body.email
                    /\ mail.Subject[4] = strip(body.subject)

\* A delivered submission whose first name was sent with surrounding
\* whitespace and whose email domain was sent with a capital letter.
C12_Witness ==
    \E r \in Req :
        /\ Done(r)
        /\ AllGatesPass(r)
        /\ trace[r].fault = "none"
        /\ response[r] = SuccessPayload
        /\ trace[r].mail.html_body.first_name # request[r].body.first_name
        /\ trace[r].mail.html_body.email # request[r].body.email

\* ------------------------------------------------------------------------
\* C13: window recovery.  With N = MAX_REQUESTS_PER_HOUR: a call that finds
\* fewer than N timestamps recorded for its key is admitted; a call that
\* finds N, all of them less than an hour old, is denied; and a call that
\* comes an hour or more (exactly an hour included) after the first
\* timestamp recorded for its key is admitted, whether or not calls for the
\* key were denied since.
\* ------------------------------------------------------------------------
C13_WindowRecovery ==
    \A r \in Req :
        trace[r].rl # "none" =>
            LET seen == trace[r].seen
                t == local[r].now
            IN  /\ Len(seen) < MAX_REQUESTS_PER_HOUR => trace[r].rl = "True"
                /\ (/\ Len(seen) = MAX_REQUESTS_PER_HOUR
                    /\ \A i \in 1..Len(seen) : t - seen[i] < HOUR)
                      => trace[r].rl = "False"
                /\ (seen # <<>> /\ t - seen[1] >= HOUR) => trace[r].rl = "True"

\* A call admitted exactly one hour after the first of the N timestamps it
\* found, with a call for the same key denied in between.
C13_Witness ==
    \E r \in Req :
        /\ trace[r].rl = "True"
        /\ Len(trace[r].seen) = MAX_REQUESTS_PER_HOUR
        /\ local[r].now - trace[r].seen[1] = HOUR
        /\ trace[r].refusals

\* ------------------------------------------------------------------------
\* C14: the RateWindow invariant.  No key ever holds more than
\* MAX_REQUESTS_PER_HOUR timestamps; and from the pruning step of
\* check_rate_limit on (where the list is read for the limit check and for
\* the append) every timestamp of the key lies within the hour that ends at
\* the `now` of that call.  Between calls the stored list may hold older
\* timestamps: it is pruned when the key is next checked.
\* ------------------------------------------------------------------------
C14_RateWindow ==
    /\ \A ip \in DOMAIN rate_limit_store :
            Len(rate_limit_store[ip]) <= MAX_REQUESTS_PER_HOUR
    /\ \A r \in Req :
        (RanStage(r, "rate_limit") /\ r \in running) =>
            LET window == StoreGet(rate_limit_store, request[r].client_ip)
                t == local[r].now
            IN  \A i \in 1..Len(window) :
                    window[i] > t - HOUR /\ window[i] <= t

\* A call that found a timestamp an hour old next to a newer one, and reads
\* the list without the old one for its limit check.
C14_Witness ==
    \E r \in Req :
        /\ pc[r] = "rate_limit_check"
        /\ \E i \in 1..Len(trace[r].seen) : trace[r].seen[i] <= local[r].now - HOUR
        /\ StoreGet(rate_limit_store, request[r].client_ip) # <<>>
        /\ StoreGet(rate_limit_store, request[r].client_ip) # trace[r].seen

\* ------------------------------------------------------------------------
\* C15
\* ------------------------------------------------------------------------
\* The stages that are a blocking network call: the tenant-store query, the
\* SMTP transaction, the email_logs insert.  A handler whose pc is one of
\* them is inside that call.
BlockingIO == {"lookup", "send_email", "log"}

\* C15 as claimed: while one request is inside its store lookup, its SMTP
\* transaction or its log insert, a request that is waiting can be taken up
\* by another handler and make progress.
C15_Claimed ==
    \A r \in Req :
        (pc[r] \in BlockingIO /\ waiting > 0) =>
            \E q \in Req \ {r} : ENABLED Call(q)

\* What the code does instead: at any moment at most one handler is between
\* its call and its response, and while it is, no waiting request is taken
\* up.
C15_OneHandlerAtATime ==
    /\ Cardinality({r \in Req : pc[r] # "idle"}) <= 1
    /\ \A r \in Req : pc[r] # "idle" => \A q \in Req : ~ENABLED Call(q)

\* A request waits while another is inside its SMTP transaction.
C15_Witness ==
    \E r \in Req : pc[r] = "send_email" /\ waiting > 0

\* ------------------------------------------------------------------------
\* C16
\* ------------------------------------------------------------------------
\* A name validator has been applied to the value under test.
NameProbed == probe.field \in {"first_name", "last_name"}

\* letters, accented letters included
LETTERS == ASCII_LETTERS \cup ACCENTED \cup OTHER_LETTERS

\* The value is v with whitespace before and after it, and v has none at
\* either end.
IsTrimOf(v, raw) ==
    /\ v = <<>> \/ (v[1] \notin WHITESPACE /\ v[Len(v)] \notin WHITESPACE)
    /\ \E i \in 0..Len(raw) :
        /\ i + Len(v) <= Len(raw)
        /\ SubSeq(raw, i + 1, i + Len(v)) = v
        /\ \A j \in (1..i) \cup ((i + Len(v) + 1)..Len(raw)) : raw[j] \in WHITESPACE

C17_Claimed ==
    probe.field = "phone" =>
        LET t == strip(probe.raw)
            rest == IF t # <<>> /\ t[1] = "+" THEN Tail(t) ELSE t
        IN  /\ probe.out.ok <=>
                /\ Len(t) >= PHONE_MIN_LENGTH /\ Len(t) <= PHONE_MAX_LENGTH
                /\ \A i \in 1..Len(rest) : rest[i] \in DIGITS \cup {" ", "-"}
            /\ Len(probe.raw) > PHONE_MAX_LENGTH => ~probe.out.ok

\* What the pattern does instead: a value is accepted iff, one trailing
\* newline aside, it is an optional '+' followed by 7..20 digits, whitespace
\* characters and hyphens, the value taken as sent; it is returned as sent.
C17_PhonePattern ==
    probe.field = "phone" =>
        LET raw == probe.raw
            v == IF raw # <<>> /\ raw[Len(raw)] = "\n" THEN {raw, SubSeq(raw, 1, Len(raw) - 1)}
                 ELSE {raw}
        IN  /\ probe.out.ok <=>
                \E w \in v :
                    LET rest == IF w # <<>> /\ w[1] = "+" THEN Tail(w) ELSE w IN
                    /\ Len(rest) >= 7 /\ Len(rest) <= 20
                    /\ \A i \in 1..Len(rest) : rest[i] \in DIGITS \cup WHITESPACE \cup {"-"}
            /\ probe.out.ok => probe.out.v = raw

\* A phone value of 21 characters, '+' and 20 digits, accepted.
C17_Witness ==
    /\ probe.field = "phone"
    /\ probe.out.ok
    /\ Len(probe.raw) = 21
    /\ probe.raw[1] = "+"
    /\ \A i \in 2..21 : probe.raw[i] \in DIGITS

\* ------------------------------------------------------------------------
\* C18
\* ------------------------------------------------------------------------
\* How often a stage occurs among the stages request r has run.
Runs(r, stage) ==
    Cardinality({i \in 1..Len(trace[r].stages) : trace[r].stages[i] = stage})

\* C18: a request calls send_email at most once and attempts the email_logs
\* insert at most once; the insert comes after a send_email of the same
\* request that returned True, and the row it writes is that request's; a
\* request answered with anything but 200 has attempted no insert.
C18_LogOnlyAfterSend ==
    \A r \in Req :
        /\ trace[r].send_calls <= 1
        /\ Runs(r, "send_email") = trace[r].send_calls
        /\ Runs(r, "log") <= 1
        /\ trace[r].log # "none" <=> RanStage(r, "log")
        /\ RanStage(r, "log") =>
              /\ \E i, j \in 1..Len(trace[r].stages) :
                    /\ i < j
                    /\ trace[r].stages[i] = "send_email"
                    /\ trace[r].stages[j] = "log"
              /\ trace[r].fault = "none"
              /\ trace[r].mail # NoMail
        /\ trace[r].log = "inserted" =>
              trace[r].log_record =
                  [client_id |-> local[r].client.id,
                   subject |-> trace[r].mail.html_body.subject,
                   sender_email |-> trace[r].mail.ReplyTo]
        /\ (Done(r) /\ response[r].status # 200) => ~RanStage(r, "log")

\* A request answered 200 whose one send was followed by its one insert.
C18_Witness ==
    \E r \in Req :
        /\ Done(r)
        /\ trace[r].send_calls = 1
        /\ trace[r].log = "inserted"
        /\ trace[r].log_record.client_id = 2
        /\ response[r] = SuccessPayload

\* ------------------------------------------------------------------------
\* C19: mail is only ever sent through all gates.  A request for which
\* send_email has been called has a body the validators accept, a key that
\* resolved (without a store error) to exactly one tenant, an Origin among
\* that tenant's allowed_origins, a blank honeypot and a client key that
\* check_rate_limit admitted; the tenant record handed to send_email is the
\* one of the request's own key, and a message that went out was sent with
\* that tenant's server, login, sender and recipient.
\* ------------------------------------------------------------------------
C19_MailOnlyThroughGates ==
    \A r \in Req :
        trace[r].send_calls > 0 =>
            /\ request[r].body \notin Rejected
            /\ ~KeyMissing(r)
            /\ ~trace[r].store_error
            /\ \E c \in clients :
                /\ TenantsOf(r) = {c}
                /\ local[r].client = c
                /\ request[r].origin \in c.allowed_origins
                /\ trace[r].mail # NoMail =>
                      /\ trace[r].mail.To = c.recipient_email
                      /\ trace[r].mail.From = c.sender_email
                      /\ trace[r].mail.login = <<c.sender_email, decrypt_password(c.sender_password)>>
                      /\ trace[r].mail.smtp_server = c.smtp_server
            /\ ~NonBlankHoneypot(r)
            /\ trace[r].rl = "True"

\* A message that went out for the second tenant, to its recipient.
C19_Witness ==
    \E r \in Req :
        /\ trace[r].send_calls > 0
        /\ request[r].x_api_key = "key-B"
        /\ trace[r].mail # NoMail
        /\ trace[r].mail.To = "leads@other.com"

\* ------------------------------------------------------------------------
\* C20: the rate-limit slot is consumed at admission and never given back.
\* From the moment check_rate_limit has returned True for a request until
\* the request is answered -- with 200 or with the 500 of a failed delivery
\* -- the timestamp of that call is the newest entry of its key's window,
\* and the window is what the call found within the hour plus that entry; so
\* every call of send_email has a slot of its own in the window.
\* ------------------------------------------------------------------------
C20_SlotNeverRolledBack ==
    \A r \in Req :
        /\ (trace[r].rl = "True" /\ r \in running) =>
              LET window == StoreGet(rate_limit_store, request[r].client_ip) IN
              /\ window # <<>>
              /\ window[Len(window)] = local[r].now
              /\ window = InWindow(trace[r].seen, local[r].now) \o <<local[r].now>>
        /\ trace[r].send_calls > 0 => trace[r].rl = "True"

\* A request admitted into the last free slot of its window and answered
\* 500 by a failed delivery: the window is full.
C20_Witness ==
    \E r \in Req :
        /\ Done(r)
        /\ response[r] = SendFailed
        /\ trace[r].rl = "True"
        /\ Len(StoreGet(rate_limit_store, request[r].client_ip)) = MAX_REQUESTS_PER_HOUR

\* ------------------------------------------------------------------------
\* C21
\* ------------------------------------------------------------------------
\* Request r is inside check_rate_limit.
InLimiter(r) == pc[r] \in {"rate_limit", "rate_limit_check", "rate_limit_record"}

\* C21: the windows of different keys are independent.  A step changes the
\* window of a key only if it is a step of check_rate_limit called with that
\* key; such a step neither creates, nor removes, nor changes the entry of
\* any other key; and a call is denied only when its own key has
\* MAX_REQUESTS_PER_HOUR admitted calls within the hour, however full the
\* windows of other keys are.
C21_KeysIndependent ==
    [][ /\ \A k \in ClientIps :
              (\/ StoreGet(rate_limit_store', k) # StoreGet(rate_limit_store, k)
               \/ (k \in DOMAIN rate_limit_store') # (k \in DOMAIN rate_limit_store))
                => \E r \in Req :
                      /\ InLimiter(r)
                      /\ pc'[r] # pc[r]
                      /\ request[r].client_ip = k
        /\ \A r \in Req :
              (trace'[r].rl = "False" /\ trace[r].rl = "none") =>
                  /\ Len(InWindow(trace[r].prior, local[r].now)) >= MAX_REQUESTS_PER_HOUR
                  /\ \A i \in 1..Len(trace[r].seen) :
                        \E j \in 1..Len(trace[r].prior) : trace[r].prior[j] = trace[r].seen[i]
      ]_vars

\* A call admitted for one key while the window of another key is full of
\* timestamps less than an hour old.
C21_Witness ==
    \E r \in Req : \E k \in ClientIps \ {request[r].client_ip} :
        /\ trace[r].rl = "True"
        /\ r \in running
        /\ Len(StoreGet(rate_limit_store, k)) = MAX_REQUESTS_PER_HOUR
        /\ \A i \in 1..Len(StoreGet(rate_limit_store, k)) :
              StoreGet(rate_limit_store, k)[i] > local[r].now - HOUR
====
